---------------------------- MODULE Spec2Model ----------------------------
(***************************************************************************)
(* The PaymentCreate operation of the router                               *)
(* (crates/router/src/core/payments/operations/payment_create.rs):         *)
(* validate_request -> get_trackers -> update_trackers, run by independent *)
(* request tasks against one shared store.  Every store access is one      *)
(* atomic step; the steps of different calls interleave freely.            *)
(***************************************************************************)
EXTENDS Integers, Sequences, FiniteSets, TLC

(* ------------------------------ bounds --------------------------------- *)

\* Number of request tasks.
NumCalls == 2

\* Amounts range over 1 .. MaxAmount, amount_to_capture over 1 .. MaxAmount + 1.
MaxAmount == 2

Calls == 1 .. NumCalls

(* ------------------------------ options -------------------------------- *)

\* Rust's Option<T>: None is the empty sequence, Some(x) the sequence <<x>>.
None == << >>

Some(x) == << x >>

IsSome(o) == o # << >>

Unwrap(o) == o[1]

(* ------------------------------ domains -------------------------------- *)

\* enums::IntentStatus, the states named by the status FSM.
IntentStatus ==
    { "RequiresPaymentMethod", "RequiresConfirmation", "Processing",
      "Succeeded", "Failed", "RequiresCapture", "Cancelled" }

\* The merchant account the requests are authenticated as.
MerchantId == "arunraj"

\* The connector the router selected for the calls.
Connector == "adyen"

\* A payment id is <<prefix, rest>>, read prefix_rest.
ClientPaymentId == << "pay", "mbabizu24mvu3mela5njyhpit10" >>

\* core_utils::get_or_generate_id / Uuid::new_v4: identifiers generated during
\* call c are unique to it.
GeneratedPaymentId(c) == << "pay", ToString(c) >>

\* api::PaymentIdType values a request may carry.
PaymentIdTypes ==
    { [kind |-> "PaymentIntentId", id |-> ClientPaymentId],
      [kind |-> "ConnectorTransactionId", id |-> << "ctx", "1" >>] }

\* Currency strings a request may carry: two known codes, one unknown.
CurrencyStrings == { "USD", "EUR", "ZZZ" }

\* One payment method payload.
Card == "card"

Confirms == { None, Some(FALSE), Some(TRUE) }

PaymentMethods == { None, Some(Card) }

\* api::PaymentsRequest, restricted to the fields the operation reads.
Request(pid, mid, amt, atc, cur, pmd, cnf, ship, bill) ==
    [ payment_id |-> pid, merchant_id |-> mid, amount |-> amt,
      amount_to_capture |-> atc, currency |-> cur,
      payment_method_data |-> pmd, confirm |-> cnf,
      shipping |-> ship, billing |-> bill ]

\* Every shape of request.
AllRequests ==
    { Request(pid, mid, amt, atc, cur, pmd, cnf, ship, bill) :
        pid \in {None} \cup { Some(t) : t \in PaymentIdTypes },
        mid \in { None, Some(MerchantId), Some("jarnura") },
        amt \in {None} \cup { Some(a) : a \in 1 .. MaxAmount },
        atc \in {None} \cup { Some(a) : a \in 1 .. MaxAmount + 1 },
        cur \in {None} \cup { Some(s) : s \in CurrencyStrings },
        pmd \in PaymentMethods,
        cnf \in Confirms,
        ship \in BOOLEAN,
        bill \in BOOLEAN }

\* A well-formed create request for the client-supplied payment id.
CoreRequest(pmd, cnf) ==
    Request(Some([kind |-> "PaymentIntentId", id |-> ClientPaymentId]),
            Some(MerchantId), Some(1), None, Some("USD"), pmd, cnf,
            FALSE, FALSE)

\* The requests of the concurrent calls: they differ in the two inputs of the
\* status FSM, with confirm absent or true.
CoreRequests ==
    { CoreRequest(pmd, cnf) : pmd \in PaymentMethods, cnf \in { None, Some(TRUE) } }

\* The same with every confirm value.
StatusRequests ==
    { CoreRequest(pmd, cnf) : pmd \in PaymentMethods, cnf \in Confirms }

(* --------------------------- status engine ----------------------------- *)

\* helpers::payment_intent_status_fsm: the status a new intent is created with.
payment_intent_status_fsm(payment_method_data, confirm) ==
    IF IsSome(payment_method_data)
    THEN IF confirm = Some(TRUE) THEN "Processing" ELSE "RequiresConfirmation"
    ELSE "RequiresPaymentMethod"

\* helpers::payment_attempt_status_fsm: derived the same way as the intent's.
payment_attempt_status_fsm(payment_method_data, confirm) ==
    IF IsSome(payment_method_data)
    THEN IF confirm = Some(TRUE) THEN "Processing" ELSE "RequiresConfirmation"
    ELSE "RequiresPaymentMethod"

\* A slip in the update rule: the status is derived again from the request's
\* flags, as at creation, instead of from the current status.
UpdateStatusFromRequest(status, payment_method_data, confirm) ==
    Some(payment_intent_status_fsm(payment_method_data, confirm))

\* A slip in the update rule: the confirm test is dropped, so payment-method
\* data alone moves the intent on.
UpdateStatusIgnoringConfirm(status, payment_method_data, confirm) ==
    CASE status = "RequiresPaymentMethod" ->
            IF IsSome(payment_method_data)
            THEN Some("RequiresConfirmation") ELSE None
      [] status = "RequiresConfirmation" -> Some("Processing")
      [] OTHER -> None

\* A slip in the update rule: payment-method data with confirm = true jumps
\* from RequiresPaymentMethod straight to Processing.
UpdateStatusSkipping(status, payment_method_data, confirm) ==
    CASE status = "RequiresPaymentMethod" ->
            IF IsSome(payment_method_data)
            THEN IF confirm = Some(TRUE)
                 THEN Some("Processing") ELSE Some("RequiresConfirmation")
            ELSE None
      [] status = "RequiresConfirmation" ->
            IF confirm = Some(TRUE) THEN Some("Processing") ELSE None
      [] OTHER -> None

\* update_trackers, the match on payment_data.payment_intent.status: the
\* status to write, None for no transition.
UpdateStatus(status, payment_method_data, confirm) ==
    CASE status = "RequiresPaymentMethod" ->
            IF IsSome(payment_method_data)
            THEN Some("RequiresConfirmation") ELSE None
      [] status = "RequiresConfirmation" ->
            IF confirm = Some(TRUE) THEN Some("Processing") ELSE None
      [] OTHER -> None

(* ------------------------ next-operation choice ------------------------ *)

\* The operation that continues an existing payment, selected from the
\* intent's status.
OperationForStatus(status) == [op |-> "ByIntentStatus", status |-> status]

PaymentCreate == [op |-> "PaymentCreate"]

PaymentConfirm == [op |-> "PaymentConfirm"]

\* A slip: the operation is kept whether or not the call resumed.
IfNotCreateKeepOperation(is_update, status, current) == current

\* payments::if_not_create_change_operation(is_update, status, current).
if_not_create_change_operation(is_update, status, current) ==
    IF is_update THEN OperationForStatus(status) ELSE current

\* A slip: an absent confirm is taken for a confirm.
IsConfirmUnlessFalse(operation, confirm) ==
    IF confirm # Some(FALSE) THEN PaymentConfirm ELSE operation

\* payments::is_confirm(operation, confirm).
is_confirm(operation, confirm) ==
    IF confirm = Some(TRUE) THEN PaymentConfirm ELSE operation

(* ------------------------------ errors --------------------------------- *)

\* errors::ApiErrorResponse values, with the field or the attached message.
ApiError(code, detail) == [code |-> code, detail |-> detail]

PaymentNotFound == ApiError("PaymentNotFound", "")

MerchantAccountNotFound == ApiError("MerchantAccountNotFound", "")

MissingRequiredField(f) == ApiError("MissingRequiredField", f)

InvalidDataFormat(f) == ApiError("InvalidDataFormat", f)

InvalidRequestData(m) == ApiError("InvalidRequestData", m)

InternalServerError(m) == ApiError("InternalServerError", m)

Ok(v) == [ok |-> TRUE, value |-> v]

Err(e) == [ok |-> FALSE, error |-> e]

(* --------------------------- request checks ---------------------------- *)

\* enums::Currency, the known set.
Currency == { "Currency::USD", "Currency::EUR" }

\* parse_enum("currency") on a currency string: the enum value of a known
\* code, nothing for any other string.
ParseCurrency(s) ==
    CASE s = "USD" -> Some("Currency::USD")
      [] s = "EUR" -> Some("Currency::EUR")
      [] OTHER -> None

\* api::PaymentIdType::get_payment_intent_id: only the PaymentIntentId variant
\* resolves to a payment id.
get_payment_intent_id(id_type) ==
    IF id_type.kind = "PaymentIntentId" THEN Ok(id_type.id) ELSE Err("NotFound")

\* helpers::validate_merchant_id: a merchant id in the request must be the
\* authenticated merchant's.
validate_merchant_id(merchant_id, request_merchant_id) ==
    ~IsSome(request_merchant_id) \/ Unwrap(request_merchant_id) = merchant_id

\* helpers::validate_request_amount_and_amount_to_capture: with both present,
\* amount_to_capture must not exceed amount.
validate_request_amount_and_amount_to_capture(amount, amount_to_capture) ==
    IF IsSome(amount) /\ IsSome(amount_to_capture)
    THEN Unwrap(amount_to_capture) <= Unwrap(amount)
    ELSE TRUE

\* A slip in the currency check: a missing or unknown currency falls back to
\* USD instead of failing.
RequestValidationAmountOnly(req) ==
    IF ~IsSome(req.amount) THEN Err(MissingRequiredField("amount"))
    ELSE Ok(<< Unwrap(req.amount),
               IF IsSome(req.currency) /\ IsSome(ParseCurrency(Unwrap(req.currency)))
               THEN Unwrap(ParseCurrency(Unwrap(req.currency)))
               ELSE "Currency::USD" >>)

\* payments_create_request_validation: (amount, currency) of the request.
payments_create_request_validation(req) ==
    IF ~IsSome(req.currency) \/ ~IsSome(ParseCurrency(Unwrap(req.currency)))
    THEN Err(InvalidRequestData("invalid currency"))
    ELSE IF ~IsSome(req.amount) THEN Err(MissingRequiredField("amount"))
    ELSE Ok(<< Unwrap(req.amount), Unwrap(ParseCurrency(Unwrap(req.currency))) >>)

\* A slip in validate_request: the capture amount is not checked.
ValidateRequestNoCaptureCheck(c, req) ==
    LET given == IF IsSome(req.payment_id)
                 THEN get_payment_intent_id(Unwrap(req.payment_id))
                 ELSE Ok(None)
    IN  IF ~given.ok THEN Err(PaymentNotFound)
        ELSE IF ~validate_merchant_id(MerchantId, req.merchant_id)
        THEN Err(MerchantAccountNotFound)
        ELSE IF ~IsSome(req.amount) THEN Err(MissingRequiredField("amount"))
        ELSE Ok(IF IsSome(req.payment_id) THEN given.value
                ELSE GeneratedPaymentId(c))

\* PaymentCreate::validate_request for call c: the resolved payment id, or
\* the error of the first check that fails.
validate_request(c, req) ==
    LET given == IF IsSome(req.payment_id)
                 THEN get_payment_intent_id(Unwrap(req.payment_id))
                 ELSE Ok(None)
    IN  IF ~given.ok THEN Err(PaymentNotFound)
        ELSE IF ~validate_merchant_id(MerchantId, req.merchant_id)
        THEN Err(MerchantAccountNotFound)
        ELSE IF ~IsSome(req.amount) THEN Err(MissingRequiredField("amount"))
        ELSE IF ~validate_request_amount_and_amount_to_capture(
                    req.amount, req.amount_to_capture)
        THEN Err(InvalidDataFormat("amount_to_capture"))
        ELSE Ok(IF IsSome(req.payment_id) THEN given.value
                ELSE GeneratedPaymentId(c))

(* -------------------------------- rows --------------------------------- *)

\* Uuid::new_v4 in make_payment_attempt, for call c.
NewTxnId(c) == << "txn", ToString(c) >>

\* utils::generate_id for the client secret of call c's intent draft.
NewClientSecret(payment_id, c) == << payment_id, "secret", ToString(c) >>

\* The address id the address repository gives the address that call c
\* resolves for `which` (shipping or billing).
NewAddressId(c, which) == << "add", which, ToString(c) >>

\* A slip in make_payment_attempt: the currency of the draft is left unset.
MakePaymentAttemptNoCurrency(c, payment_id, merchant_id, connector, money, request) ==
    [ payment_id |-> payment_id,
      merchant_id |-> merchant_id,
      txn_id |-> NewTxnId(c),
      status |-> payment_attempt_status_fsm(request.payment_method_data,
                                            request.confirm),
      amount |-> money[1],
      currency |-> None,
      connector |-> connector,
      confirm |-> IF IsSome(request.confirm) THEN Unwrap(request.confirm)
                  ELSE FALSE ]

\* PaymentCreate::make_payment_attempt.
make_payment_attempt(c, payment_id, merchant_id, connector, money, request) ==
    [ payment_id |-> payment_id,
      merchant_id |-> merchant_id,
      txn_id |-> NewTxnId(c),
      status |-> payment_attempt_status_fsm(request.payment_method_data,
                                            request.confirm),
      amount |-> money[1],
      currency |-> Some(money[2]),
      connector |-> connector,
      confirm |-> IF IsSome(request.confirm) THEN Unwrap(request.confirm)
                  ELSE FALSE ]

\* A slip in make_payment_intent: the confirm flag is not passed on to the FSM.
MakePaymentIntentNoConfirm(c, payment_id, merchant_id, connector_id, money, request, shipping_address_id, billing_address_id) ==
    [ payment_id |-> payment_id,
      merchant_id |-> merchant_id,
      status |-> payment_intent_status_fsm(request.payment_method_data, None),
      amount |-> money[1],
      currency |-> Some(money[2]),
      connector_id |-> Some(connector_id),
      client_secret |-> Some(NewClientSecret(payment_id, c)),
      shipping_address_id |-> shipping_address_id,
      billing_address_id |-> billing_address_id ]

\* PaymentCreate::make_payment_intent.
make_payment_intent(c, payment_id, merchant_id, connector_id, money, request, shipping_address_id, billing_address_id) ==
    [ payment_id |-> payment_id,
      merchant_id |-> merchant_id,
      status |-> payment_intent_status_fsm(request.payment_method_data,
                                           request.confirm),
      amount |-> money[1],
      currency |-> Some(money[2]),
      connector_id |-> Some(connector_id),
      client_secret |-> Some(NewClientSecret(payment_id, c)),
      shipping_address_id |-> shipping_address_id,
      billing_address_id |-> billing_address_id ]

\* A slip in make_connector_response: the response gets a transaction id of
\* its own instead of the attempt's.
MakeConnectorResponseOwnTxn(c, payment_attempt) ==
    [ payment_id |-> payment_attempt.payment_id,
      merchant_id |-> payment_attempt.merchant_id,
      txn_id |-> NewTxnId(c),
      connector_name |-> payment_attempt.connector,
      connector_transaction_id |-> None ]

\* A slip in make_connector_response: the draft already names a connector
\* transaction.
MakeConnectorResponseWithTransaction(c, payment_attempt) ==
    [ payment_id |-> payment_attempt.payment_id,
      merchant_id |-> payment_attempt.merchant_id,
      txn_id |-> payment_attempt.txn_id,
      connector_name |-> payment_attempt.connector,
      connector_transaction_id |-> Some(payment_attempt.txn_id) ]

\* PaymentCreate::make_connector_response (c is the calling task; the draft
\* is a copy of the attempt's fields).
make_connector_response(c, payment_attempt) ==
    [ payment_id |-> payment_attempt.payment_id,
      merchant_id |-> payment_attempt.merchant_id,
      txn_id |-> payment_attempt.txn_id,
      connector_name |-> payment_attempt.connector,
      connector_transaction_id |-> None ]

(* -------------------------------- state -------------------------------- *)

VARIABLES
    calls,                \* the request tasks: position and locals of each
    payment_attempts,     \* store table of PaymentAttempt rows
    payment_intents,      \* store table of PaymentIntent rows
    connector_responses,  \* store table of ConnectorResponse rows
    addresses             \* store table of address rows

vars == << calls, payment_attempts, payment_intents, connector_responses,
           addresses >>

store == << payment_attempts, payment_intents, connector_responses, addresses >>

(* -------------------------------- store -------------------------------- *)

SameKey(r, payment_id, merchant_id) ==
    r.payment_id = payment_id /\ r.merchant_id = merchant_id

\* Rows of a table under (payment_id, merchant_id).
RowsOf(table, payment_id, merchant_id) ==
    { r \in table : SameKey(r, payment_id, merchant_id) }

\* A store without the unique index on (payment_id, merchant_id).
KeyedInsertOutcomesNoIndex(table, new) == {"Ok", "Other"}

\* What an insert can report: the unique index on (payment_id, merchant_id)
\* of payment_attempt and of payment_intent rejects a second row of a key;
\* any insert may also fail for another reason.
KeyedInsertOutcomes(table, new) ==
    (IF RowsOf(table, new.payment_id, new.merchant_id) # {}
     THEN {"UniqueViolation"} ELSE {"Ok"}) \cup {"Other"}

\* A store without the unique index on connector_response.txn_id.
ConnectorResponseInsertOutcomesNoIndex(table, new) == {"Ok", "Other"}

\* The same for connector_response, whose unique index is on the txn_id.
ConnectorResponseInsertOutcomes(table, new) ==
    (IF \E r \in table : r.txn_id = new.txn_id
     THEN {"UniqueViolation"} ELSE {"Ok"}) \cup {"Other"}

\* find_*_by_payment_id_merchant_id: the row of the key, or not found.
FindByPaymentIdMerchantId(table, payment_id, merchant_id) ==
    IF RowsOf(table, payment_id, merchant_id) # {}
    THEN Ok(CHOOSE r \in table : SameKey(r, payment_id, merchant_id))
    ELSE Err("NotFound")

\* A slip in the update: the row is written back without its client secret.
ApplyReturnUrlUpdateDroppingSecret(row, status) ==
    [row EXCEPT !.status = IF IsSome(status) THEN Unwrap(status) ELSE @,
                !.client_secret = None]

\* update_payment_intent with PaymentIntentUpdate::ReturnUrlUpdate: the stored
\* row of the intent's key with the fields that are Some written over it.
ApplyReturnUrlUpdate(row, status) ==
    IF IsSome(status) THEN [row EXCEPT !.status = Unwrap(status)] ELSE row

(* ----------------------------- call state ------------------------------ *)

\* A request task about to run validate_request on req.
NewCall(req) ==
    [ pc |-> "validate_request",
      request |-> req,
      replay |-> FALSE,        \* history: issued after the same request succeeded
      payment_id |-> None,
      money |-> None,
      shipping_address_id |-> None,
      billing_address_id |-> None,
      is_update |-> FALSE,
      payment_attempt |-> None,
      payment_intent |-> None,
      connector_response |-> None,
      operation |-> None,
      error |-> None ]

\* A task slot that receives no request.
NoCall == [NewCall(None) EXCEPT !.pc = "none"]

\* A call that returned Err(error): its locals are dropped with the task.
Failed(call, pc, error) ==
    [NewCall(call.request) EXCEPT !.pc = pc,
                                  !.replay = call.replay,
                                  !.payment_id = call.payment_id,
                                  !.error = Some(error)]

\* Positions after get_trackers returned Ok.
AfterGetTrackers == { "update_trackers", "done", "update_failed" }

\* Positions inside the pipeline at which a request can be abandoned.
InFlight ==
    { "insert_payment_attempt", "find_payment_attempt",
      "insert_payment_intent", "find_payment_intent",
      "insert_connector_response", "update_trackers" }

\* The PaymentData aggregate get_trackers returns, as update_trackers holds it.
PaymentData(call) ==
    [ payment_intent |-> Unwrap(call.payment_intent),
      payment_attempt |-> Unwrap(call.payment_attempt),
      connector_response |-> Unwrap(call.connector_response),
      amount |-> Unwrap(call.money)[1],
      currency |-> Unwrap(call.money)[2],
      confirm |-> call.request.confirm,
      payment_method_data |-> call.request.payment_method_data ]

(* --------------------------- validate_request -------------------------- *)

\* The request of call c is the replay of a request whose get_trackers has
\* already returned Ok.
IsReplay(c) ==
    \E d \in Calls \ {c} :
        /\ calls[d].pc \in AfterGetTrackers
        /\ calls[d].request = calls[c].request

ValidateRequest(c) ==
    /\ calls[c].pc = "validate_request"
    /\ LET r == validate_request(c, calls[c].request)
       IN  calls' = [calls EXCEPT ![c] =
                IF r.ok
                THEN [@ EXCEPT !.pc = "get_trackers",
                               !.payment_id = Some(r.value),
                               !.replay = IsReplay(c)]
                ELSE Failed(@, "rejected", r.error)]
    /\ UNCHANGED store

(* ----------------------------- get_trackers ---------------------------- *)

\* helpers::get_address_for_payment_request: an address payload is stored
\* under a new address id; no payload, no address.
AddressFor(c, present, which) ==
    IF present THEN Some([address_id |-> NewAddressId(c, which)]) ELSE None

\* get_trackers up to the first access to the payment tables: the currency
\* and amount check, then the two address resolutions.
GetTrackersBegin(c) ==
    /\ calls[c].pc = "get_trackers"
    /\ LET call == calls[c]
           r == payments_create_request_validation(call.request)
           shipping == AddressFor(c, call.request.shipping, "shipping")
           billing == AddressFor(c, call.request.billing, "billing")
       IN  IF r.ok
           THEN /\ calls' = [calls EXCEPT ![c] =
                      [@ EXCEPT !.pc = "insert_payment_attempt",
                                !.money = Some(r.value),
                                !.shipping_address_id =
                                    IF IsSome(shipping)
                                    THEN Some(Unwrap(shipping).address_id)
                                    ELSE None,
                                !.billing_address_id =
                                    IF IsSome(billing)
                                    THEN Some(Unwrap(billing).address_id)
                                    ELSE None]]
                /\ addresses' = addresses
                      \cup (IF IsSome(shipping) THEN {Unwrap(shipping)} ELSE {})
                      \cup (IF IsSome(billing) THEN {Unwrap(billing)} ELSE {})
           ELSE /\ calls' = [calls EXCEPT ![c] = Failed(@, "failed", r.error)]
                /\ UNCHANGED addresses
    /\ UNCHANGED << payment_attempts, payment_intents, connector_responses >>

\* The arms of the match on insert_payment_attempt's result.
AttemptInserted(call, row) ==
    [call EXCEPT !.pc = "insert_payment_intent", !.payment_attempt = Some(row)]

AttemptUniqueViolation(call) ==
    [call EXCEPT !.pc = "find_payment_attempt", !.is_update = TRUE]

\* A slip: every failure of the attempt insert is taken for a unique violation.
AttemptInsertFailureResumed(call) ==
    [call EXCEPT !.pc = "find_payment_attempt", !.is_update = TRUE]

AttemptInsertFailed(call) == Failed(call, "failed", InternalServerError(""))

InsertPaymentAttempt(c) ==
    /\ calls[c].pc = "insert_payment_attempt"
    /\ LET call == calls[c]
           new == make_payment_attempt(c, Unwrap(call.payment_id), MerchantId,
                                       Connector, Unwrap(call.money),
                                       call.request)
       IN  \E outcome \in KeyedInsertOutcomes(payment_attempts, new) :
             /\ payment_attempts' = IF outcome = "Ok"
                                    THEN payment_attempts \cup {new}
                                    ELSE payment_attempts
             /\ calls' = [calls EXCEPT ![c] =
                   CASE outcome = "Ok" -> AttemptInserted(call, new)
                     [] outcome = "UniqueViolation" ->
                            AttemptUniqueViolation(call)
                     [] OTHER -> AttemptInsertFailed(call)]
    /\ UNCHANGED << payment_intents, connector_responses, addresses >>

\* The fetch that follows a unique violation on the attempt insert.
FindPaymentAttempt(c) ==
    /\ calls[c].pc = "find_payment_attempt"
    /\ LET call == calls[c]
           r == FindByPaymentIdMerchantId(payment_attempts,
                                          Unwrap(call.payment_id), MerchantId)
       IN  calls' = [calls EXCEPT ![c] =
                IF r.ok
                THEN [@ EXCEPT !.pc = "insert_payment_intent",
                               !.payment_attempt = Some(r.value)]
                ELSE Failed(@, "failed", PaymentNotFound)]
    /\ UNCHANGED store

\* The arms of the match on insert_payment_intent's result.
IntentInserted(call, row) ==
    [call EXCEPT !.pc = "insert_connector_response",
                 !.payment_intent = Some(row)]

\* A slip: the intent's unique violation does not mark the call as a resume.
IntentUniqueViolationUnmarked(call) ==
    [call EXCEPT !.pc = "find_payment_intent"]

IntentUniqueViolation(call) ==
    [call EXCEPT !.pc = "find_payment_intent", !.is_update = TRUE]

\* A slip: every failure of the intent insert is taken for a unique violation.
IntentInsertFailureResumed(call) ==
    [call EXCEPT !.pc = "find_payment_intent", !.is_update = TRUE]

IntentInsertFailed(call) == Failed(call, "failed", InternalServerError(""))

InsertPaymentIntent(c) ==
    /\ calls[c].pc = "insert_payment_intent"
    /\ LET call == calls[c]
           new == make_payment_intent(c, Unwrap(call.payment_id), MerchantId,
                                      Connector, Unwrap(call.money),
                                      call.request, call.shipping_address_id,
                                      call.billing_address_id)
       IN  \E outcome \in KeyedInsertOutcomes(payment_intents, new) :
             /\ payment_intents' = IF outcome = "Ok"
                                   THEN payment_intents \cup {new}
                                   ELSE payment_intents
             /\ calls' = [calls EXCEPT ![c] =
                   CASE outcome = "Ok" -> IntentInserted(call, new)
                     [] outcome = "UniqueViolation" ->
                            IntentUniqueViolation(call)
                     [] OTHER -> IntentInsertFailed(call)]
    /\ UNCHANGED << payment_attempts, connector_responses, addresses >>

\* The fetch that follows a unique violation on the intent insert.
FindPaymentIntent(c) ==
    /\ calls[c].pc = "find_payment_intent"
    /\ LET call == calls[c]
           r == FindByPaymentIdMerchantId(payment_intents,
                                          Unwrap(call.payment_id), MerchantId)
       IN  calls' = [calls EXCEPT ![c] =
                IF r.ok
                THEN [@ EXCEPT !.pc = "insert_connector_response",
                               !.payment_intent = Some(r.value)]
                ELSE Failed(@, "failed", PaymentNotFound)]
    /\ UNCHANGED store

\* The arms of the match on insert_connector_response's result; the Ok arm
\* runs on to the end of get_trackers and selects the next operation.
ConnectorResponseInserted(call, row) ==
    [call EXCEPT !.pc = "update_trackers",
                 !.connector_response = Some(row),
                 !.operation = Some(if_not_create_change_operation(
                                       call.is_update,
                                       Unwrap(call.payment_intent).status,
                                       PaymentCreate))]

\* A slip: the duplicate connector response is taken for a resume, as the
\* attempt's and the intent's are.
ConnectorResponseResumed(call) ==
    [call EXCEPT !.pc = "update_trackers",
                 !.is_update = TRUE,
                 !.connector_response =
                     Some(make_connector_response(0, Unwrap(call.payment_attempt))),
                 !.operation = Some(if_not_create_change_operation(
                                       TRUE,
                                       Unwrap(call.payment_intent).status,
                                       PaymentCreate))]

ConnectorResponseUniqueViolation(call) ==
    Failed(call, "failed",
           InternalServerError("Duplicate connector response in the database"))

ConnectorResponseInsertFailed(call) ==
    Failed(call, "failed",
           InternalServerError("Error occured when inserting connector response"))

InsertConnectorResponse(c) ==
    /\ calls[c].pc = "insert_connector_response"
    /\ LET call == calls[c]
           new == make_connector_response(c, Unwrap(call.payment_attempt))
       IN  \E outcome \in ConnectorResponseInsertOutcomes(connector_responses,
                                                         new) :
             /\ connector_responses' = IF outcome = "Ok"
                                       THEN connector_responses \cup {new}
                                       ELSE connector_responses
             /\ calls' = [calls EXCEPT ![c] =
                   CASE outcome = "Ok" -> ConnectorResponseInserted(call, new)
                     [] outcome = "UniqueViolation" ->
                            ConnectorResponseUniqueViolation(call)
                     [] OTHER -> ConnectorResponseInsertFailed(call)]
    /\ UNCHANGED << payment_attempts, payment_intents, addresses >>

\* A request abandoned between two store accesses: the task takes no further
\* step and what it stored stays.
Abandon(c) ==
    /\ calls[c].pc \in InFlight
    /\ calls' = [calls EXCEPT ![c] =
          [NewCall(calls[c].request) EXCEPT !.pc = "abandoned",
                                            !.replay = calls[c].replay,
                                            !.payment_id = calls[c].payment_id]]
    /\ UNCHANGED store

(* ---------------------------- update_trackers -------------------------- *)

UpdateTrackers(c) ==
    /\ calls[c].pc = "update_trackers"
    /\ LET call == calls[c]
           payment_data == PaymentData(call)
           status == UpdateStatus(payment_data.payment_intent.status,
                                  payment_data.payment_method_data,
                                  payment_data.confirm)
           found == FindByPaymentIdMerchantId(
                        payment_intents,
                        payment_data.payment_intent.payment_id,
                        payment_data.payment_intent.merchant_id)
       IN  IF found.ok
           THEN LET updated == ApplyReturnUrlUpdate(found.value, status)
                IN  /\ payment_intents' =
                           (payment_intents \ {found.value}) \cup {updated}
                    /\ calls' = [calls EXCEPT ![c] =
                          [@ EXCEPT !.pc = "done",
                                    !.payment_intent = Some(updated),
                                    !.operation = Some(is_confirm(
                                        PaymentCreate, payment_data.confirm))]]
           ELSE /\ calls' = [calls EXCEPT ![c] =
                      Failed(@, "update_failed", PaymentNotFound)]
                /\ UNCHANGED payment_intents
    /\ UNCHANGED << payment_attempts, connector_responses, addresses >>

(* ---------------------------- specifications --------------------------- *)

\* Concurrent create requests for one client-supplied payment id, against an
\* empty store.
Init ==
    /\ calls \in [Calls -> { NewCall(r) : r \in CoreRequests }]
    /\ payment_attempts = {}
    /\ payment_intents = {}
    /\ connector_responses = {}
    /\ addresses = {}

Next ==
    \E c \in Calls :
        \/ ValidateRequest(c)
        \/ GetTrackersBegin(c)
        \/ InsertPaymentAttempt(c)
        \/ FindPaymentAttempt(c)
        \/ InsertPaymentIntent(c)
        \/ FindPaymentIntent(c)
        \/ InsertConnectorResponse(c)
        \/ Abandon(c)
        \/ UpdateTrackers(c)

Spec == Init /\ [][Next]_vars

\* The rows an earlier create request for the client-supplied payment id
\* left in the store, as far as it got before it ended: nothing, the
\* attempt, the attempt and the intent, or all three rows.
PriorAttempt ==
    make_payment_attempt(0, ClientPaymentId, MerchantId, Connector,
                         << 1, "Currency::USD" >>, CoreRequest(None, None))

PriorIntent ==
    make_payment_intent(0, ClientPaymentId, MerchantId, Connector,
                        << 1, "Currency::USD" >>, CoreRequest(None, None),
                        None, None)

PriorConnectorResponse == make_connector_response(0, PriorAttempt)

PriorStores ==
    { << {}, {}, {} >>,
      << {PriorAttempt}, {}, {} >>,
      << {PriorAttempt}, {PriorIntent}, {} >>,
      << {PriorAttempt}, {PriorIntent}, {PriorConnectorResponse} >> }

\* One create request of any shape, against a store an earlier request left.
InitValidate ==
    \E r \in AllRequests, st \in PriorStores :
        /\ calls = [c \in Calls |-> IF c = 1 THEN NewCall(r) ELSE NoCall]
        /\ payment_attempts = st[1]
        /\ payment_intents = st[2]
        /\ connector_responses = st[3]
        /\ addresses = {}

ValidateSpec == InitValidate /\ [][Next]_vars

\* update_trackers handed an aggregate whose intent is in any status, with the
\* intent's row in the store or gone from it.
InitUpdate ==
    \E r \in StatusRequests, s \in IntentStatus, u \in BOOLEAN,
       stored \in BOOLEAN :
        LET intent == [PriorIntent EXCEPT !.status = s]
        IN  /\ calls = [c \in Calls |->
                   IF c = 1
                   THEN [NewCall(r) EXCEPT
                            !.pc = "update_trackers",
                            !.payment_id = Some(ClientPaymentId),
                            !.money = Some(<< 1, "Currency::USD" >>),
                            !.is_update = u,
                            !.payment_attempt = Some(PriorAttempt),
                            !.payment_intent = Some(intent),
                            !.connector_response = Some(PriorConnectorResponse),
                            !.operation = Some(if_not_create_change_operation(
                                                  u, s, PaymentCreate))]
                   ELSE NoCall]
            /\ payment_attempts = {PriorAttempt}
            /\ payment_intents = IF stored THEN {intent} ELSE {}
            /\ connector_responses = {PriorConnectorResponse}
            /\ addresses = {}

NextUpdate == \E c \in Calls : UpdateTrackers(c)

UpdateSpec == InitUpdate /\ [][NextUpdate]_vars

\* Another operation of the system removes the attempt row (the intent row)
\* of a payment while a create request for its key is under way.
DeletePaymentAttempt ==
    /\ \E r \in payment_attempts : payment_attempts' = payment_attempts \ {r}
    /\ UNCHANGED << calls, payment_intents, connector_responses, addresses >>

DeletePaymentIntent ==
    /\ \E r \in payment_intents : payment_intents' = payment_intents \ {r}
    /\ UNCHANGED << calls, payment_attempts, connector_responses, addresses >>

NextRace ==
    \/ Next
    \/ DeletePaymentAttempt
    \/ DeletePaymentIntent

\* One create request against a store an earlier request left, racing with
\* the removal of rows.
RaceSpec == InitValidate /\ [][NextRace]_vars

(* ------------------------- notions of the claims ----------------------- *)

\* get_trackers of call c has returned, Ok or Err.
GetTrackersReturned(c) == calls[c].pc \in AfterGetTrackers \cup {"failed"}

\* get_trackers of call c failed on a store failure other than a unique
\* violation.
HitStoreFailure(c) ==
    /\ calls[c].pc = "failed"
    /\ calls[c].error \in
          { Some(InternalServerError("")),
            Some(InternalServerError(
                "Error occured when inserting connector response")) }

\* get_trackers of call c failed on the duplicate connector response.
HitDuplicateConnectorResponse(c) ==
    /\ calls[c].pc = "failed"
    /\ calls[c].error = Some(InternalServerError(
                             "Duplicate connector response in the database"))

\* The attempt (the intent) call c holds is the one it inserted itself: it
\* carries the transaction id (the client secret) generated in call c.
AttemptIsOwn(c) ==
    /\ IsSome(calls[c].payment_attempt)
    /\ Unwrap(calls[c].payment_attempt).txn_id = NewTxnId(c)

IntentIsOwn(c) ==
    /\ IsSome(calls[c].payment_intent)
    /\ Unwrap(calls[c].payment_intent).client_secret =
          Some(NewClientSecret(Unwrap(calls[c].payment_id), c))

\* The rows of the three payment tables under call c's key.
AttemptsOf(c) ==
    RowsOf(payment_attempts, Unwrap(calls[c].payment_id), MerchantId)

IntentsOf(c) ==
    RowsOf(payment_intents, Unwrap(calls[c].payment_id), MerchantId)

ConnectorResponsesOf(c) ==
    RowsOf(connector_responses, Unwrap(calls[c].payment_id), MerchantId)

ExactlyOneRowEach(c) ==
    /\ Cardinality(AttemptsOf(c)) = 1
    /\ Cardinality(IntentsOf(c)) = 1
    /\ Cardinality(ConnectorResponsesOf(c)) = 1

(* -------------------------------- claims ------------------------------- *)

\* C1: once two concurrent get_trackers calls for the same (payment_id,
\* merchant_id) have both returned, neither on a store failure other than a
\* unique violation, the store holds exactly one PaymentIntent row, one
\* PaymentAttempt row and one ConnectorResponse row for that key, whatever
\* the interleaving of their store accesses.
C1_ExactlyOneRowOfEach ==
    \A c, d \in Calls :
        ( /\ c # d
          /\ GetTrackersReturned(c) /\ GetTrackersReturned(d)
          /\ ~HitStoreFailure(c) /\ ~HitStoreFailure(d)
          /\ calls[c].payment_id = calls[d].payment_id )
        => ExactlyOneRowEach(c)

\* C1, its case: two calls carrying the same request have both returned and
\* the key has its three rows.
C1_Witness ==
    \E c, d \in Calls :
        /\ c # d
        /\ calls[c].request = calls[d].request
        /\ calls[c].pc \in AfterGetTrackers
        /\ HitDuplicateConnectorResponse(d)
        /\ ExactlyOneRowEach(c)

\* C2, as claimed: a request replayed after the same request's get_trackers
\* succeeded has its get_trackers succeed as a resume, with no row added and
\* the next operation selected from the intent's status.
C2_ReplayResumes ==
    \A d \in Calls :
        (calls[d].replay /\ GetTrackersReturned(d) /\ ~HitStoreFailure(d))
        => /\ calls[d].pc \in AfterGetTrackers
           /\ calls[d].is_update
           /\ ExactlyOneRowEach(d)
           /\ calls[d].pc = "update_trackers" =>
                 calls[d].operation =
                     Some(OperationForStatus(
                              Unwrap(calls[d].payment_intent).status))

\* C3: past the intent step of get_trackers, is_update is true exactly when
\* the attempt or the intent the call holds was fetched after a unique
\* violation rather than inserted by the call itself.
C3_ResumeFlag ==
    \A c \in Calls :
        calls[c].pc \in { "insert_connector_response", "update_trackers", "done" }
        => (calls[c].is_update <=> (~AttemptIsOwn(c) \/ ~IntentIsOwn(c)))

\* C3, its case: only one of the two steps resumed (the attempt is the
\* call's own, the intent was fetched) and the flag is set.
C3_Witness ==
    \E c \in Calls :
        /\ calls[c].pc = "update_trackers"
        /\ AttemptIsOwn(c) /\ ~IntentIsOwn(c)
        /\ calls[c].is_update

\* C4: a connector-response insert that meets a row with the same txn_id ends
\* the call with InternalServerError, never as a resume, and leaves the
\* attempt and intent rows of the call in the store as they were.
C4_DuplicateConnectorResponseIsFatal ==
    [][ \A c \in Calls :
          ( /\ calls[c].pc = "insert_connector_response"
            /\ calls'[c].pc \notin { "insert_connector_response", "abandoned" }
            /\ \E r \in connector_responses :
                   r.txn_id = Unwrap(calls[c].payment_attempt).txn_id )
          => /\ calls'[c].pc = "failed"
             /\ Unwrap(calls'[c].error).code = "InternalServerError"
             /\ payment_attempts' = payment_attempts
             /\ payment_intents' = payment_intents
             /\ connector_responses' = connector_responses
             /\ Unwrap(calls[c].payment_attempt) \in payment_attempts'
             /\ IntentsOf(c) # {} ]_vars

\* C4, its case: a call has failed on the duplicate connector response and
\* the attempt and the intent of its key are in the store.
C4_Witness ==
    \E c \in Calls :
        /\ HitDuplicateConnectorResponse(c)
        /\ AttemptsOf(c) # {}
        /\ IntentsOf(c) # {}

\* Call c takes its update_trackers step and the store has the intent.
UpdateTrackersWrites(c) ==
    calls[c].pc = "update_trackers" /\ calls'[c].pc = "done"

\* The status the aggregate of call c holds before (after) the step.
StatusBefore(c) == Unwrap(calls[c].payment_intent).status

StatusAfter(c) == Unwrap(calls'[c].payment_intent).status

\* The status the store holds for call c's key after the step.
StoredStatusAfter(c) ==
    { r.status : r \in RowsOf(payment_intents', Unwrap(calls[c].payment_id),
                              MerchantId) }

\* C5: a create that finds no intent for its key persists one whose status is
\* Processing with payment-method data and confirm = true,
\* RequiresConfirmation with payment-method data and confirm absent or
\* false, RequiresPaymentMethod without payment-method data, whatever confirm.
C5_FreshIntentStatus ==
    [][ \A c \in Calls :
          ( /\ calls[c].pc = "insert_payment_intent"
            /\ calls'[c].pc = "insert_connector_response" )
          => LET req == calls[c].request
                 expected ==
                     IF req.payment_method_data = None
                     THEN "RequiresPaymentMethod"
                     ELSE IF req.confirm = Some(TRUE)
                          THEN "Processing" ELSE "RequiresConfirmation"
             IN  /\ IntentsOf(c) = {}
                 /\ StoredStatusAfter(c) = {expected}
                 /\ StatusAfter(c) = expected ]_vars

\* C5, its case: a call has just inserted the intent of a request with
\* payment-method data and confirm = false, at RequiresConfirmation.
C5_Witness ==
    \E c \in Calls :
        /\ calls[c].pc = "insert_connector_response"
        /\ IntentIsOwn(c)
        /\ calls[c].request.payment_method_data = Some(Card)
        /\ calls[c].request.confirm = Some(FALSE)
        /\ Unwrap(calls[c].payment_intent) \in payment_intents
        /\ Unwrap(calls[c].payment_intent).status = "RequiresConfirmation"

\* C6: update_trackers writes RequiresConfirmation over RequiresPaymentMethod
\* when the aggregate carries payment-method data, Processing over
\* RequiresConfirmation when confirm is exactly true, and leaves every other
\* status, and these two otherwise, as they are.
C6_UpdateRule ==
    [][ \A c \in Calls :
          UpdateTrackersWrites(c)
          => LET req == calls[c].request
                 old == StatusBefore(c)
                 expected ==
                     CASE old = "RequiresPaymentMethod"
                              /\ req.payment_method_data # None ->
                              "RequiresConfirmation"
                       [] old = "RequiresConfirmation"
                              /\ req.confirm = Some(TRUE) -> "Processing"
                       [] OTHER -> old
             IN  /\ StatusAfter(c) = expected
                 /\ StoredStatusAfter(c) = {expected} ]_vars

\* C6, its case: update_trackers has run on an intent at
\* RequiresPaymentMethod without payment-method data and confirm = true,
\* and the status is kept.
C6_Witness ==
    \E c \in Calls :
        /\ calls[c].pc = "done"
        /\ calls[c].request.payment_method_data = None
        /\ calls[c].request.confirm = Some(TRUE)
        /\ Unwrap(calls[c].payment_intent).status = "RequiresPaymentMethod"
        /\ Unwrap(calls[c].payment_intent) \in payment_intents

\* C7, as claimed: applied to a RequiresPaymentMethod record, the update rule
\* yields the status the creation rule chooses for the same inputs.
C7_RulesAgree ==
    [][ \A c \in Calls :
          (UpdateTrackersWrites(c) /\ StatusBefore(c) = "RequiresPaymentMethod")
          => StatusAfter(c) =
                 payment_intent_status_fsm(calls[c].request.payment_method_data,
                                           calls[c].request.confirm) ]_vars

\* C7, amended: applied to a RequiresPaymentMethod record, the update rule
\* yields the creation rule's status for every input but payment-method data
\* with confirm = true; there it yields RequiresConfirmation, and applied
\* once more, to that RequiresConfirmation record, it yields the creation
\* rule's Processing.
C7_RulesAgreeInTwoSteps ==
    [][ \A c \in Calls :
          UpdateTrackersWrites(c)
          => LET req == calls[c].request
                 created == payment_intent_status_fsm(req.payment_method_data,
                                                      req.confirm)
                 both == req.payment_method_data # None
                             /\ req.confirm = Some(TRUE)
             IN  /\ (StatusBefore(c) = "RequiresPaymentMethod" /\ ~both)
                        => StatusAfter(c) = created
                 /\ (StatusBefore(c) = "RequiresPaymentMethod" /\ both)
                        => StatusAfter(c) = "RequiresConfirmation"
                 /\ (StatusBefore(c) = "RequiresConfirmation" /\ both)
                        => StatusAfter(c) = created ]_vars

\* C7, its case: update_trackers has run with payment-method data and
\* confirm = true and left the intent at RequiresConfirmation, which only the
\* step from RequiresPaymentMethod does.
C7_Witness ==
    \E c \in Calls :
        /\ calls[c].pc = "done"
        /\ calls[c].request.payment_method_data = Some(Card)
        /\ calls[c].request.confirm = Some(TRUE)
        /\ Unwrap(calls[c].payment_intent).status = "RequiresConfirmation"

\* Position of a status in the FSM RequiresPaymentMethod ->
\* RequiresConfirmation -> Processing -> the states after Processing.
StatusRank(s) ==
    CASE s = "RequiresPaymentMethod" -> 0
      [] s = "RequiresConfirmation" -> 1
      [] s = "Processing" -> 2
      [] OTHER -> 3

ReachableStatus(from, to) == from = to \/ StatusRank(from) < StatusRank(to)

\* C8: no step deletes an intent row or writes to it a status that the FSM
\* does not reach from the status stored when the step is taken.
C8_StatusMonotonic ==
    [][ \A r \in payment_intents :
          \E q \in payment_intents' :
              /\ SameKey(q, r.payment_id, r.merchant_id)
              /\ ReachableStatus(r.status, q.status) ]_vars

\* C8, its case: update_trackers of a resumed call has moved the stored
\* intent, created by another call at RequiresPaymentMethod, on to
\* RequiresConfirmation.
C8_Witness ==
    \E c \in Calls :
        /\ calls[c].pc = "done"
        /\ calls[c].is_update
        /\ ~IntentIsOwn(c)
        /\ \E r \in IntentsOf(c) :
              /\ r.status = "RequiresConfirmation"
              /\ \E d \in Calls \ {c} :
                    /\ r.client_secret =
                          Some(NewClientSecret(r.payment_id, d))
                    /\ calls[d].request.payment_method_data = None

\* Call c has put no row of its own into any table: rows are told apart by
\* the transaction id, client secret and address ids a call generates.
WroteNothing(c) ==
    /\ \A r \in payment_attempts : r.txn_id # NewTxnId(c)
    /\ \A r \in payment_intents :
          r.client_secret # Some(NewClientSecret(r.payment_id, c))
    /\ \A r \in connector_responses : r.txn_id # NewTxnId(c)
    /\ \A r \in addresses :
          r.address_id \notin {NewAddressId(c, "shipping"),
                               NewAddressId(c, "billing")}

CaptureExceedsAmount(req) ==
    /\ IsSome(req.amount)
    /\ IsSome(req.amount_to_capture)
    /\ Unwrap(req.amount_to_capture) > Unwrap(req.amount)

\* The checks validate_request makes before it looks at the amounts.
PassesIdChecks(req) ==
    /\ req.payment_id = None \/ Unwrap(req.payment_id).kind = "PaymentIntentId"
    /\ req.merchant_id \in {None, Some(MerchantId)}

\* C9: a request whose amount_to_capture exceeds its amount never gets past
\* validate_request, which rejects it with InvalidDataFormat on
\* amount_to_capture once the payment id and the merchant id are in order;
\* the rejecting step writes no table and the call never has a row in any;
\* a request that validate_request accepts with amount_to_capture present
\* has amount_to_capture <= amount.
C9_CaptureAmountChecked ==
    /\ [](\A c \in Calls :
            (calls[c].pc # "none" /\ CaptureExceedsAmount(calls[c].request))
            => /\ calls[c].pc \in {"validate_request", "rejected"}
               /\ WroteNothing(c)
               /\ (calls[c].pc = "rejected" /\ PassesIdChecks(calls[c].request))
                     => calls[c].error =
                            Some(InvalidDataFormat("amount_to_capture")))
    /\ [](\A c \in Calls :
            ( /\ calls[c].pc \notin {"none", "validate_request", "rejected"}
              /\ IsSome(calls[c].request.amount_to_capture) )
            => Unwrap(calls[c].request.amount_to_capture)
                   <= Unwrap(calls[c].request.amount))
    /\ [][ \A c \in Calls :
             (calls[c].pc = "validate_request" /\ calls'[c].pc = "rejected")
             => UNCHANGED store ]_vars

\* C9, its case: validate_request has rejected a request with
\* amount_to_capture above amount, with the capture-amount error, while the
\* store holds the rows of an earlier payment.
C9_Witness ==
    \E c \in Calls :
        /\ calls[c].pc = "rejected"
        /\ CaptureExceedsAmount(calls[c].request)
        /\ calls[c].error = Some(InvalidDataFormat("amount_to_capture"))
        /\ payment_intents # {}

UnparseableCurrency(req) ==
    req.currency = None \/ Unwrap(req.currency) \notin {"USD", "EUR"}

\* The enum value a currency string stands for.
CurrencyOf(s) == IF s = "USD" THEN "Currency::USD" ELSE "Currency::EUR"

\* C10: a request whose currency is missing or unknown stops in
\* validate_request or at the start of get_trackers, there with
\* InvalidRequestData, its steps write no table and it never has a row in any;
\* the aggregate get_trackers returns for a request whose currency parses
\* carries the value the string stands for, whether the rows are its own or
\* were fetched.
C10_CurrencyChecked ==
    /\ [](\A c \in Calls :
            (calls[c].pc # "none" /\ UnparseableCurrency(calls[c].request))
            => /\ calls[c].pc \in {"validate_request", "rejected",
                                   "get_trackers", "failed"}
               /\ WroteNothing(c)
               /\ calls[c].pc = "failed"
                     => calls[c].error =
                            Some(InvalidRequestData("invalid currency")))
    /\ [](\A c \in Calls :
            ( /\ calls[c].pc \in AfterGetTrackers
              /\ IsSome(calls[c].payment_intent) )
            => /\ ~UnparseableCurrency(calls[c].request)
               /\ PaymentData(calls[c]).currency =
                      CurrencyOf(Unwrap(calls[c].request.currency)))
    /\ [][ \A c \in Calls :
             ( /\ calls[c].pc # "none"
               /\ UnparseableCurrency(calls[c].request)
               /\ calls'[c] # calls[c] )
             => UNCHANGED store ]_vars

\* C10, its case: get_trackers has failed on an unknown currency with
\* InvalidRequestData while the store holds the rows of an earlier payment
\* and nothing of this call.
C10_Witness ==
    \E c \in Calls :
        /\ calls[c].pc = "failed"
        /\ calls[c].request.currency = Some("ZZZ")
        /\ calls[c].error = Some(InvalidRequestData("invalid currency"))
        /\ payment_attempts # {}
        /\ WroteNothing(c)

\* C11: when the pipeline validate_request, get_trackers, update_trackers
\* has run for a request with payment-method data and confirm = true that
\* found no row under its payment id, the key holds one intent, at
\* Processing, and one attempt, with the request's amount and the value its
\* currency string stands for; the payment id is the client's when the
\* request carries one, else an id generated in the call with prefix pay.
C11_FreshConfirmedCreate ==
    \A c \in Calls :
        ( /\ calls[c].pc = "done"
          /\ calls[c].request.payment_method_data # None
          /\ calls[c].request.confirm = Some(TRUE)
          /\ AttemptIsOwn(c) /\ IntentIsOwn(c) )
        => LET req == calls[c].request
               payment_id == Unwrap(calls[c].payment_id)
           IN  /\ \A r \in IntentsOf(c) : r.status = "Processing"
               /\ Cardinality(IntentsOf(c)) = 1
               /\ Cardinality(AttemptsOf(c)) = 1
               /\ \A r \in AttemptsOf(c) :
                     /\ r.amount = Unwrap(req.amount)
                     /\ r.currency = Some(CurrencyOf(Unwrap(req.currency)))
               /\ IF IsSome(req.payment_id)
                  THEN payment_id = Unwrap(req.payment_id).id
                  ELSE /\ payment_id[1] = "pay"
                       /\ payment_id = GeneratedPaymentId(c)
                       /\ payment_id # ClientPaymentId

\* C11, its case: the pipeline has run for a request without a payment id,
\* with payment-method data, confirm = true and currency EUR, and stored its
\* rows under a generated id next to the rows of an earlier payment.
C11_Witness ==
    \E c \in Calls :
        /\ calls[c].pc = "done"
        /\ calls[c].request.payment_id = None
        /\ calls[c].request.payment_method_data = Some(Card)
        /\ calls[c].request.confirm = Some(TRUE)
        /\ calls[c].request.currency = Some("EUR")
        /\ AttemptIsOwn(c) /\ IntentIsOwn(c)
        /\ Unwrap(calls[c].payment_id)[1] = "pay"
        /\ \E r \in IntentsOf(c) : r.status = "Processing"
        /\ PriorIntent \in payment_intents

\* The insert steps of get_trackers.
InsertSteps ==
    { "insert_payment_attempt", "insert_payment_intent",
      "insert_connector_response" }

\* C12, as claimed: get_trackers never returns an error because of a unique
\* violation: an insert step that ends the call with an error does so on a
\* store failure other than a unique violation.
C12_UniqueViolationNeverSurfaces ==
    [][ \A c \in Calls :
          (calls[c].pc \in InsertSteps /\ calls'[c].pc = "failed")
          => calls'[c].error \in
                { Some(InternalServerError("")),
                  Some(InternalServerError(
                      "Error occured when inserting connector response")) }
      ]_vars

\* Call c is a request for the key under which an earlier request, abandoned
\* after one, two or all three of its inserts, left its rows.
FollowsAbandonedRequest(c) ==
    /\ calls[c].payment_id = Some(ClientPaymentId)
    /\ PriorAttempt \in payment_attempts

\* C13, as claimed: the get_trackers of the request that follows an abandoned
\* one for the same key resumes from the rows it finds: unless the request's
\* own currency is bad or the store fails other than by a unique violation,
\* it returns Ok, as a resume.
C13_ResumesAfterAbandon ==
    \A c \in Calls :
        (FollowsAbandonedRequest(c) /\ GetTrackersReturned(c))
        => \/ calls[c].pc \in AfterGetTrackers /\ calls[c].is_update
           \/ calls[c].pc = "update_failed"
           \/ HitStoreFailure(c)
           \/ calls[c].error = Some(InvalidRequestData("invalid currency"))

\* Call c takes a step out of position pc.
StepsFrom(c, pc) ==
    /\ calls[c].pc = pc
    /\ calls'[c].pc \notin {pc, "abandoned"}

\* C14: the attempt insert of a key that has an attempt row is followed by
\* the fetch of that key's attempt, unless the insert fails otherwise; a
\* fetch that finds no row ends the call with PaymentNotFound, an insert
\* failure other than a unique violation with InternalServerError; either
\* failure leaves the store as it is, and the failed call takes no further
\* step, so it issues no intent and no connector-response insert.
C14_AttemptStep ==
    [][ \A c \in Calls :
          LET rows == AttemptsOf(c)
          IN  /\ StepsFrom(c, "insert_payment_attempt")
                 => /\ rows # {}
                       => calls'[c].pc \in {"find_payment_attempt", "failed"}
                    /\ calls'[c].pc = "find_payment_attempt"
                       => rows # {} /\ UNCHANGED store
                    /\ calls'[c].pc = "failed"
                       => /\ Unwrap(calls'[c].error).code = "InternalServerError"
                          /\ UNCHANGED store
              /\ StepsFrom(c, "find_payment_attempt")
                 => IF rows = {}
                    THEN /\ calls'[c].pc = "failed"
                         /\ calls'[c].error = Some(PaymentNotFound)
                         /\ UNCHANGED store
                    ELSE /\ calls'[c].pc = "insert_payment_intent"
                         /\ Unwrap(calls'[c].payment_attempt) \in rows
              /\ calls[c].pc = "failed" => calls'[c] = calls[c] ]_vars

\* C14, its case: the attempt row was removed between the unique violation
\* and the fetch, and the call has failed with PaymentNotFound; the intent
\* row of the key has been in the store all along, so it was the attempt's
\* fetch that found nothing.
C14_Witness ==
    \E c \in Calls :
        /\ calls[c].pc = "failed"
        /\ calls[c].error = Some(PaymentNotFound)
        /\ payment_attempts = {}
        /\ payment_intents = {PriorIntent}

\* C15: a call at the intent step holds the attempt the attempt step
\* inserted or fetched; the intent insert of a key that has an intent row is
\* followed by the fetch of that key's intent, unless the insert fails
\* otherwise; a fetch that finds no row ends the call with PaymentNotFound,
\* an insert failure other than a unique violation with InternalServerError;
\* either failure leaves the store, the attempt rows included, as it is, and
\* the failed call takes no further step, so it issues no
\* connector-response insert.
C15_IntentStep ==
    [][ \A c \in Calls :
          LET rows == IntentsOf(c)
          IN  /\ calls[c].pc \in {"insert_payment_intent", "find_payment_intent"}
                 => /\ IsSome(calls[c].payment_attempt)
                    /\ SameKey(Unwrap(calls[c].payment_attempt),
                               Unwrap(calls[c].payment_id), MerchantId)
              /\ StepsFrom(c, "insert_payment_intent")
                 => /\ rows # {}
                       => calls'[c].pc \in {"find_payment_intent", "failed"}
                    /\ calls'[c].pc = "find_payment_intent"
                       => rows # {} /\ UNCHANGED store
                    /\ calls'[c].pc = "failed"
                       => /\ Unwrap(calls'[c].error).code = "InternalServerError"
                          /\ UNCHANGED store
              /\ StepsFrom(c, "find_payment_intent")
                 => IF rows = {}
                    THEN /\ calls'[c].pc = "failed"
                         /\ calls'[c].error = Some(PaymentNotFound)
                         /\ UNCHANGED store
                    ELSE /\ calls'[c].pc = "insert_connector_response"
                         /\ Unwrap(calls'[c].payment_intent) \in rows
              /\ calls[c].pc = "failed" => calls'[c] = calls[c] ]_vars

\* C15, its case: the intent row was removed between the unique violation
\* and the fetch, and the call has failed with PaymentNotFound; the attempt
\* row of the key has been in the store all along and is still there, and
\* no connector response was stored.
C15_Witness ==
    \E c \in Calls :
        /\ calls[c].pc = "failed"
        /\ calls[c].error = Some(PaymentNotFound)
        /\ payment_attempts = {PriorAttempt}
        /\ payment_intents = {}
        /\ connector_responses = {}

\* C16: the operation a successful get_trackers returns is PaymentCreate
\* when the call inserted both the attempt and the intent it holds, and
\* otherwise the operation selected from the status of the intent it holds,
\* which is the row of its key in the store, fetched or inserted by the call.
C16_OperationAfterGetTrackers ==
    \A c \in Calls :
        calls[c].pc = "update_trackers"
        => /\ Unwrap(calls[c].payment_intent) \in IntentsOf(c)
           /\ calls[c].operation =
                 IF AttemptIsOwn(c) /\ IntentIsOwn(c)
                 THEN Some(PaymentCreate)
                 ELSE Some(OperationForStatus(
                               Unwrap(calls[c].payment_intent).status))

\* C16, its case: get_trackers has returned to a call that inserted the
\* attempt and fetched the intent, stored by another call at
\* RequiresConfirmation, and the operation is the one for that status.
C16_Witness ==
    \E c \in Calls :
        /\ calls[c].pc = "update_trackers"
        /\ AttemptIsOwn(c) /\ ~IntentIsOwn(c)
        /\ Unwrap(calls[c].payment_intent).status = "RequiresConfirmation"
        /\ calls[c].operation = Some(OperationForStatus("RequiresConfirmation"))
        /\ calls[c].operation # Some(PaymentCreate)

\* C17: the operation a successful update_trackers returns is PaymentConfirm
\* when the aggregate's confirm is exactly true and PaymentCreate when it is
\* false or absent, whatever the intent's status, the resume flag and the
\* status written.
C17_OperationAfterUpdateTrackers ==
    [][ \A c \in Calls :
          UpdateTrackersWrites(c)
          => calls'[c].operation =
                 IF calls[c].request.confirm = Some(TRUE)
                 THEN Some(PaymentConfirm) ELSE Some(PaymentCreate) ]_vars

\* C17, its case: update_trackers has run with confirm = true on a resumed
\* intent at RequiresPaymentMethod, written no transition, and returned
\* PaymentConfirm.
C17_Witness ==
    \E c \in Calls :
        /\ calls[c].pc = "done"
        /\ calls[c].is_update
        /\ calls[c].request.confirm = Some(TRUE)
        /\ calls[c].request.payment_method_data = None
        /\ Unwrap(calls[c].payment_intent).status = "RequiresPaymentMethod"
        /\ calls[c].operation = Some(PaymentConfirm)

\* The connector-response rows under the transaction id of the attempt call
\* c holds.
ResponsesOfAttempt(c) ==
    { r \in connector_responses :
        r.txn_id = Unwrap(calls[c].payment_attempt).txn_id }

\* C18: from the return of get_trackers to the connector call that follows
\* it, the store holds exactly one connector-response row under the returned
\* attempt's txn_id: the one in the aggregate, with the attempt's payment_id,
\* merchant_id, txn_id and connector, and no connector transaction id.
C18_ConnectorResponseBeforeConnector ==
    \A c \in Calls :
        calls[c].pc = "update_trackers"
        => LET attempt == Unwrap(calls[c].payment_attempt)
           IN  /\ Cardinality(ResponsesOfAttempt(c)) = 1
               /\ ResponsesOfAttempt(c) = {Unwrap(calls[c].connector_response)}
               /\ \A r \in ResponsesOfAttempt(c) :
                     /\ r.payment_id = attempt.payment_id
                     /\ r.merchant_id = attempt.merchant_id
                     /\ r.txn_id = attempt.txn_id
                     /\ r.connector_name = attempt.connector
                     /\ r.connector_transaction_id = None

\* C18, its case: get_trackers has returned to a call that fetched another
\* call's attempt and stored the connector response under that attempt's
\* txn_id.
C18_Witness ==
    \E c \in Calls :
        /\ calls[c].pc = "update_trackers"
        /\ ~AttemptIsOwn(c)
        /\ Unwrap(calls[c].payment_attempt) \in payment_attempts
        /\ Unwrap(calls[c].connector_response) \in connector_responses
        /\ Unwrap(calls[c].connector_response).txn_id # NewTxnId(c)
        /\ Cardinality(connector_responses) = 1

\* C19: a step of update_trackers leaves the attempt, connector-response and
\* address tables as they are; when the store has the intent of the key, the
\* step ends the call and replaces that one row by a row that differs from
\* it in nothing but the status; when the store has no intent of the key,
\* the call fails with PaymentNotFound and the intent table is unchanged too.
C19_UpdateTrackersFrame ==
    [][ \A c \in Calls :
          StepsFrom(c, "update_trackers")
          => /\ payment_attempts' = payment_attempts
             /\ connector_responses' = connector_responses
             /\ addresses' = addresses
             /\ IF IntentsOf(c) = {}
                THEN /\ calls'[c].pc = "update_failed"
                     /\ calls'[c].error = Some(PaymentNotFound)
                     /\ payment_intents' = payment_intents
                ELSE /\ calls'[c].pc = "done"
                     /\ \E old \in IntentsOf(c) :
                          \E new \in payment_intents' :
                             /\ payment_intents' =
                                    (payment_intents \ {old}) \cup {new}
                             /\ [new EXCEPT !.status = old.status] = old
                             /\ calls'[c].payment_intent = Some(new) ]_vars

\* C19, its case: update_trackers has run and the stored intent is at
\* Processing, all its other fields as they were, while the attempt row,
\* created at RequiresPaymentMethod, and the connector-response row are as
\* they were.
C19_Witness ==
    \E c \in Calls :
        /\ calls[c].pc = "done"
        /\ calls[c].request.payment_method_data = None
        /\ payment_intents = {[PriorIntent EXCEPT !.status = "Processing"]}
        /\ payment_attempts = {PriorAttempt}
        /\ PriorAttempt.status = "RequiresPaymentMethod"
        /\ connector_responses = {PriorConnectorResponse}

\* No update_trackers has run yet.
NoUpdateTrackersYet ==
    \A c \in Calls : calls[c].pc \notin {"done", "update_failed"}

\* C20, as claimed: before any update_trackers has run, the attempt row and
\* the intent row of a key carry the same status, whichever calls stored
\* them.
C20_AttemptMirrorsIntent ==
    NoUpdateTrackersYet
    => \A a \in payment_attempts :
          \A i \in RowsOf(payment_intents, a.payment_id, a.merchant_id) :
              a.status = i.status

\* C21: for one key at most one get_trackers returns Ok: every return of Ok
\* stores a connector-response row that was not there, the key never has
\* more than one such row, and no two calls of a key are past get_trackers.
C21_OneSuccessPerKey ==
    /\ [](\A c, d \in Calls :
            ( /\ c # d
              /\ calls[c].pc \in AfterGetTrackers
              /\ calls[d].pc \in AfterGetTrackers )
            => calls[c].payment_id # calls[d].payment_id)
    /\ [](Cardinality(RowsOf(connector_responses, ClientPaymentId,
                             MerchantId)) <= 1)
    /\ [][ \A c \in Calls :
             StepsFrom(c, "insert_connector_response")
             => (calls'[c].pc = "update_trackers"
                    <=> /\ ConnectorResponsesOf(c) = {}
                        /\ connector_responses' # connector_responses) ]_vars

\* C21, its case: the one successful call ran on with the attempt another
\* call inserted, and that other call's get_trackers failed on the duplicate
\* connector response.
C21_Witness ==
    \E c, d \in Calls :
        /\ c # d
        /\ calls[c].pc = "done"
        /\ Unwrap(calls[c].payment_attempt).txn_id = NewTxnId(d)
        /\ HitDuplicateConnectorResponse(d)
        /\ Cardinality(connector_responses) = 1

\* The positions of a call past the attempt and intent steps.
PastIntentStep == {"insert_connector_response", "update_trackers", "done"}

\* C22: of the calls of a key that get past the attempt and intent steps at
\* most one has is_update false: a call leaves the intent step with
\* is_update false only by inserting the intent of a key that had none, next
\* to the attempt it inserted itself, and no two calls past the intent step
\* both have is_update false.
C22_AtMostOneFreshCall ==
    /\ [](\A c, d \in Calls :
            ( /\ c # d
              /\ calls[c].pc \in PastIntentStep
              /\ calls[d].pc \in PastIntentStep
              /\ calls[c].payment_id = calls[d].payment_id )
            => calls[c].is_update \/ calls[d].is_update)
    /\ [][ \A c \in Calls :
             ( /\ calls[c].pc \in {"insert_payment_intent", "find_payment_intent"}
               /\ calls'[c].pc = "insert_connector_response"
               /\ ~calls'[c].is_update )
             => /\ IntentsOf(c) = {}
                /\ AttemptIsOwn(c)
                /\ AttemptsOf(c) = {Unwrap(calls[c].payment_attempt)}
                /\ Unwrap(calls'[c].payment_intent) \in payment_intents' ]_vars

\* C22, its case: two calls are past the intent step and both have is_update
\* true: one inserted the attempt and fetched the intent, the other fetched
\* the attempt and inserted the intent.
C22_Witness ==
    \E c, d \in Calls :
        /\ c # d
        /\ calls[c].pc = "insert_connector_response"
        /\ calls[d].pc = "insert_connector_response"
        /\ calls[c].is_update /\ calls[d].is_update
        /\ AttemptIsOwn(c) /\ ~IntentIsOwn(c)
        /\ IntentIsOwn(d) /\ ~AttemptIsOwn(d)

\* C23: while no row is deleted, a key with an intent row has an attempt
\* row, and a connector-response row has the attempt row and the intent row
\* of its key in the store and carries the txn_id of that attempt row,
\* whatever the interleaving and whichever calls failed or were abandoned.
C23_RowsNest ==
    /\ \A i \in payment_intents :
          RowsOf(payment_attempts, i.payment_id, i.merchant_id) # {}
    /\ \A r \in connector_responses :
          /\ RowsOf(payment_attempts, r.payment_id, r.merchant_id) # {}
          /\ RowsOf(payment_intents, r.payment_id, r.merchant_id) # {}
          /\ \A a \in RowsOf(payment_attempts, r.payment_id, r.merchant_id) :
                a.txn_id = r.txn_id

\* C23, its case: a call was abandoned after it inserted the attempt,
\* another call stored the intent and the connector response, under the
\* abandoned call's txn_id.
C23_Witness ==
    \E c, d \in Calls :
        /\ c # d
        /\ calls[c].pc = "abandoned"
        /\ calls[d].pc = "update_trackers"
        /\ IntentIsOwn(d)
        /\ \E r \in connector_responses : r.txn_id = NewTxnId(c)
        /\ \E a \in payment_attempts : a.txn_id = NewTxnId(c)

=============================================================================
